---- MODULE Spec2Model ----
(***************************************************************************)
(* A model of "Pong: Grok Edition" (src/##GROK6.29.251.04K.py): the Game   *)
(* object (paddles, ball, scores, flags), its reset() and update()         *)
(* methods, and the event loop of main().  Rectangles are pygame.Rect      *)
(* values with integer fields; only the fields the program ever changes    *)
(* are state (the paddles' y, the ball's x and y).                         *)
(***************************************************************************)
EXTENDS Integers, FiniteSets, Sequences, TLC

\* ------------------------------------------------------------ constants
WIDTH == 640
HEIGHT == 480
PADDLE_WIDTH == 10
PADDLE_HEIGHT == 60
BALL_SIZE == 10
PADDLE_SPEED == 3
BALL_SPEED == 4
FPS == 60
\* x offset of each paddle from its side of the field (Rect(50, ...), WIDTH - 50 - ...)
PADDLE_MARGIN == 50
\* the AI's deadband around the paddle centre
AI_DEADBAND == 30
\* update() does nothing when fewer than this many ms have passed
UPDATE_LAG == 32
\* the score that ends the match
WIN_SCORE == 5

\* ------------------------------------------------------------ bounds
\* length of a session, in effective-update periods of UPDATE_LAG ms
MaxTicks == 930
\* input events (key presses, key releases, window close) in a session
MaxEvents == 1
\* calls of update() that come only one frame after the call before
MaxShort == 1
\* the same for the short sessions of SpecBurst
BurstTicks == 5
BurstEvents == 3
\* input events of a session whose first event answers the post-match prompt
PromptEvents == 2
\* a two-player session up to the first rally that ends in a corner
DuelTicks == 295
DuelEvents == 3

MaxTime == MaxTicks * UPDATE_LAG
BurstTime == BurstTicks * UPDATE_LAG
DuelTime == DuelTicks * UPDATE_LAG

\* ------------------------------------------------------------ inputs
\* keys whose held state update() reads with pygame.key.get_pressed()
MoveKeys == {"w", "s", "up", "down"}
\* keys main() acts on at KEYDOWN
CommandKeys == {"escape", "r", "1", "2", "y", "n"}
Keys == MoveKeys \cup CommandKeys
\* one frame of the 60 FPS loop, in ms of pygame.time.get_ticks()
FrameMs == 1000 \div FPS
\* time between two calls of update(): one frame, or two
Delays == {FrameMs, 2 * FrameMs}
Sounds == {"boop", "beep", "score"}

VARIABLES
  paddle1,      \* paddle1.y
  paddle2,      \* paddle2.y
  ball,         \* [x, y] of the ball's Rect (its top-left corner)
  ball_speed,   \* <<vx, vy>>
  score1, score2,
  ai_active, insert_coin, game_over,
  last_update,  \* get_ticks() of the last effective update
  running,      \* main()'s loop flag
  pc,           \* "loop" while main()'s while loop runs, "done" after pygame.quit()
  now,          \* pygame.time.get_ticks(): the clock
  keys,         \* the movement keys held down (pygame.key.get_pressed())
  sounds,       \* the sounds the last call of update() played
  last,         \* what the loop did last: "init", the key of a KEYDOWN, "keyup",
                \* "quit", or how update() ended: "concluded", "throttled", "update"
  nevents,      \* input events handled so far
  nshort        \* one-frame calls of update() so far

vars == <<paddle1, paddle2, ball, ball_speed, score1, score2, ai_active,
          insert_coin, game_over, last_update, running, pc, now, keys,
          sounds, last, nevents, nshort>>

\* what Game owns, clock and input aside
game == <<paddle1, paddle2, ball, ball_speed, score1, score2, ai_active,
          insert_coin, game_over, last_update>>

\* ------------------------------------------------------------ pygame.Rect
PADDLE1_X == PADDLE_MARGIN
PADDLE2_X == WIDTH - PADDLE_MARGIN - PADDLE_WIDTH
PaddleCenterY(p) == p + PADDLE_HEIGHT \div 2
PaddleBottom(p) == p + PADDLE_HEIGHT
BallCenterX(b) == b.x + BALL_SIZE \div 2
BallCenterY(b) == b.y + BALL_SIZE \div 2
BallRight(b) == b.x + BALL_SIZE
BallBottom(b) == b.y + BALL_SIZE
\* Rect.topleft = (cx, cy) in place of Rect.center
BallCornerAt(cx, cy) == [x |-> cx, y |-> cy]

\* Rect.center = (cx, cy): the top-left corner that puts the centre there
BallCenteredAt(cx, cy) == [x |-> cx - BALL_SIZE \div 2, y |-> cy - BALL_SIZE \div 2]
\* Rect.colliderect: the rectangles overlap (touching edges do not)
ColliderectPaddle(b, px, py) ==
  /\ b.x < px + PADDLE_WIDTH
  /\ BallRight(b) > px
  /\ b.y < PaddleBottom(py)
  /\ BallBottom(b) > py

\* ------------------------------------------------------------ Game.reset
PaddleStartY == HEIGHT \div 2 - PADDLE_HEIGHT \div 2
ResetBall == [x |-> WIDTH \div 2, y |-> HEIGHT \div 2]
ResetSpeed == <<BALL_SPEED, BALL_SPEED>>

\* reset(): everything but ai_active and last_update
Reset ==
  /\ paddle1' = PaddleStartY
  /\ paddle2' = PaddleStartY
  /\ ball' = ResetBall
  /\ ball_speed' = ResetSpeed
  /\ score1' = 0
  /\ score2' = 0
  /\ insert_coin' = FALSE
  /\ game_over' = FALSE

\* Game(): reset(), then the four assignments of __init__
Init ==
  /\ paddle1 = PaddleStartY
  /\ paddle2 = PaddleStartY
  /\ ball = ResetBall
  /\ ball_speed = ResetSpeed
  /\ score1 = 0
  /\ score2 = 0
  /\ ai_active = TRUE
  /\ now = 0
  /\ last_update = now
  /\ insert_coin = TRUE
  /\ game_over = FALSE
  /\ running = TRUE
  /\ pc = "loop"
  /\ keys = {}
  /\ sounds = {}
  /\ last = "init"
  /\ nevents = 0
  /\ nshort = 0

\* ------------------------------------------------------------ Game.update
\* the throttle: too little time since the last effective update
\* the comparison written <= for <
ThrottledInclusive(t, lu) == t - lu <= UPDATE_LAG

Throttled(t, lu) == t - lu < UPDATE_LAG

\* W and S without the guards on the paddle's edges
MovePaddle1Unclamped(p, ks) ==
  LET up == IF "w" \in ks THEN p - PADDLE_SPEED ELSE p
  IN IF "s" \in ks THEN up + PADDLE_SPEED ELSE up

\* W then S, each guarded by the paddle's edge
MovePaddle1(p, ks) ==
  LET up == IF "w" \in ks /\ p > 0 THEN p - PADDLE_SPEED ELSE p
  IN IF "s" \in ks /\ PaddleBottom(up) < HEIGHT THEN up + PADDLE_SPEED ELSE up

\* UP then DOWN, each guarded by the paddle's edge
MovePaddle2Keys(p, ks) ==
  LET up == IF "up" \in ks /\ p > 0 THEN p - PADDLE_SPEED ELSE p
  IN IF "down" \in ks /\ PaddleBottom(up) < HEIGHT THEN up + PADDLE_SPEED ELSE up

\* the AI without its deadband
MovePaddle2AIEager(p, b) ==
  LET down == IF BallCenterY(b) > PaddleCenterY(p) /\ PaddleBottom(p) < HEIGHT
              THEN p + PADDLE_SPEED ELSE p
  IN IF BallCenterY(b) < PaddleCenterY(down) /\ down > 0
     THEN down - PADDLE_SPEED ELSE down

\* the AI: down when the ball is more than the deadband below, then up when
\* it is more than the deadband above
MovePaddle2AI(p, b) ==
  LET down == IF BallCenterY(b) > PaddleCenterY(p) + AI_DEADBAND /\ PaddleBottom(p) < HEIGHT
              THEN p + PADDLE_SPEED ELSE p
  IN IF BallCenterY(b) < PaddleCenterY(down) - AI_DEADBAND /\ down > 0
     THEN down - PADDLE_SPEED ELSE down

MovePaddle2(p, ks, ai, b) ==
  IF ~ai THEN MovePaddle2Keys(p, ks) ELSE MovePaddle2AI(p, b)

\* both coordinates advanced by ball_speed[0]
AdvanceBallOneIndex(b, v) == [x |-> b.x + v[1], y |-> b.y + v[1]]

\* ball.x += ball_speed[0]; ball.y += ball_speed[1]
AdvanceBall(b, v) == [x |-> b.x + v[1], y |-> b.y + v[2]]

\* the bottom edge forgotten
WallHitTopOnly(b) == b.y <= 0

\* the ball's top or bottom edge is at or past the field's
WallHit(b) == b.y <= 0 \/ BallBottom(b) >= HEIGHT

\* paddle2 forgotten
PaddleHitLeftOnly(b, p1, p2) == ColliderectPaddle(b, PADDLE1_X, p1)

PaddleHit(b, p1, p2) ==
  ColliderectPaddle(b, PADDLE1_X, p1) \/ ColliderectPaddle(b, PADDLE2_X, p2)

\* the velocity after the two collision checks
\* the paddle test written as the elif of the wall test
BounceWallFirst(b, v, p1, p2) ==
  <<IF ~WallHit(b) /\ PaddleHit(b, p1, p2) THEN -v[1] ELSE v[1],
    IF WallHit(b) THEN -v[2] ELSE v[2]>>

Bounce(b, v, p1, p2) ==
  <<IF PaddleHit(b, p1, p2) THEN -v[1] ELSE v[1],
    IF WallHit(b) THEN -v[2] ELSE v[2]>>

\* the comparison written < for <=
ScoresLeftStrict(b) == b.x < 0

ScoresLeft(b) == b.x <= 0
ScoresRight(b) == BallRight(b) >= WIDTH

\* the scoring step with the two serve directions exchanged
ScoringServeSwapped(b, v, s1, s2) ==
  LET l == IF ScoresLeft(b)
           THEN [b |-> BallCenteredAt(WIDTH \div 2, HEIGHT \div 2),
                 v |-> <<-BALL_SPEED, BALL_SPEED>>, s1 |-> s1, s2 |-> s2 + 1,
                 snd |-> {"score"}]
           ELSE [b |-> b, v |-> v, s1 |-> s1, s2 |-> s2, snd |-> {}]
  IN IF ScoresRight(l.b)
     THEN [b |-> BallCenteredAt(WIDTH \div 2, HEIGHT \div 2),
           v |-> <<BALL_SPEED, BALL_SPEED>>, s1 |-> l.s1 + 1, s2 |-> l.s2,
           snd |-> {"score"}]
     ELSE l

\* the scoring step on the advanced ball b with velocity v: first the left
\* boundary, then the right one, read on the ball the first branch left
Scoring(b, v, s1, s2) ==
  LET l == IF ScoresLeft(b)
           THEN [b |-> BallCenteredAt(WIDTH \div 2, HEIGHT \div 2),
                 v |-> <<BALL_SPEED, BALL_SPEED>>, s1 |-> s1, s2 |-> s2 + 1,
                 snd |-> {"score"}]
           ELSE [b |-> b, v |-> v, s1 |-> s1, s2 |-> s2, snd |-> {}]
  IN IF ScoresRight(l.b)
     THEN [b |-> BallCenteredAt(WIDTH \div 2, HEIGHT \div 2),
           v |-> <<-BALL_SPEED, BALL_SPEED>>, s1 |-> l.s1 + 1, s2 |-> l.s2,
           snd |-> {"score"}]
     ELSE l

\* the comparison written > for >=
WinConditionStrict(s1, s2) == s1 > WIN_SCORE \/ s2 > WIN_SCORE

WinCondition(s1, s2) == s1 >= WIN_SCORE \/ s2 >= WIN_SCORE

\* the sounds of one effective update with advanced ball b
SoundsOf(b, p1, p2, scored) ==
  (IF WallHit(b) THEN {"boop"} ELSE {})
    \cup (IF PaddleHit(b, p1, p2) THEN {"beep"} ELSE {})
    \cup scored

\* update() without its first early return
ConcludedIgnored == FALSE

\* update() returns at once
Concluded == game_over

\* the body of update() past its two early returns, at clock reading t
Step(t) ==
  LET p1 == MovePaddle1(paddle1, keys)
      p2 == MovePaddle2(paddle2, keys, ai_active, ball)
      b  == AdvanceBall(ball, ball_speed)
      v  == Bounce(b, ball_speed, p1, p2)
      sc == Scoring(b, v, score1, score2)
  IN /\ last_update' = t
     /\ paddle1' = p1
     /\ paddle2' = p2
     /\ ball' = sc.b
     /\ ball_speed' = sc.v
     /\ score1' = sc.s1
     /\ score2' = sc.s2
     /\ game_over' = (game_over \/ WinCondition(sc.s1, sc.s2))
     /\ sounds' = SoundsOf(b, p1, p2, sc.snd)
     /\ last' = "update"
     /\ UNCHANGED <<ai_active, insert_coin>>

\* one pass of main()'s loop body after the events: the clock has moved on
\* by dt, update() runs, and the loop ends if running was cleared
Update(dt, maxTime, maxShort) ==
  /\ pc = "loop"
  /\ now + dt <= maxTime
  /\ dt < UPDATE_LAG => nshort < maxShort
  /\ nshort' = IF dt < UPDATE_LAG THEN nshort + 1 ELSE nshort
  /\ now' = now + dt
  /\ IF Concluded
     THEN /\ UNCHANGED game
          /\ sounds' = {}
          /\ last' = "concluded"
     ELSE IF Throttled(now', last_update)
     THEN /\ UNCHANGED game
          /\ sounds' = {}
          /\ last' = "throttled"
     ELSE Step(now')
  /\ pc' = IF running THEN "loop" ELSE "done"
  /\ UNCHANGED <<running, keys, nevents>>

\* ------------------------------------------------------------ main: events
\* does this KEYDOWN call game.reset()?  R always, Y when the match is over
\* (game_over as the R branch left it)
ResetsOn(k) == k = "r" \/ (game_over /\ k = "y")

\* N read without the test of game_over
QuitsOnAnyN(k) == k = "escape" \/ k = "n"

\* does this KEYDOWN clear running?  ESCAPE always, N when the match is over
QuitsOn(k) == k = "escape" \/ (game_over /\ k = "n")

\* reset() setting ai_active again, as __init__ does
AiAfterResetsToAI(k) ==
  IF k = "1" \/ ResetsOn(k) THEN TRUE ELSE IF k = "2" THEN FALSE ELSE ai_active

AiAfter(k) == IF k = "1" THEN TRUE ELSE IF k = "2" THEN FALSE ELSE ai_active

KeyDown(k, maxEvents) ==
  /\ pc = "loop"
  /\ nevents < maxEvents
  /\ k \in MoveKeys => k \notin keys
  /\ nevents' = nevents + 1
  /\ keys' = IF k \in MoveKeys THEN keys \cup {k} ELSE keys
  /\ running' = IF QuitsOn(k) THEN FALSE ELSE running
  /\ ai_active' = AiAfter(k)
  /\ IF ResetsOn(k)
     THEN Reset
     ELSE /\ insert_coin' = FALSE
          /\ UNCHANGED <<paddle1, paddle2, ball, ball_speed, score1, score2, game_over>>
  /\ last' = k
  /\ sounds' = {}
  /\ UNCHANGED <<last_update, pc, now, nshort>>

\* a KEYUP event: main() ignores it; get_pressed() no longer reports the key
KeyUp(k, maxEvents) ==
  /\ pc = "loop"
  /\ nevents < maxEvents
  /\ k \in keys
  /\ nevents' = nevents + 1
  /\ keys' = keys \ {k}
  /\ last' = "keyup"
  /\ sounds' = {}
  /\ UNCHANGED <<game, running, pc, now, nshort>>

\* a QUIT event
Quit(maxEvents) ==
  /\ pc = "loop"
  /\ nevents < maxEvents
  /\ nevents' = nevents + 1
  /\ running' = FALSE
  /\ last' = "quit"
  /\ sounds' = {}
  /\ UNCHANGED <<game, pc, now, keys, nshort>>

\* ------------------------------------------------------------ specifications
\* a whole match: update() is called every two frames but for a few calls
\* that come after one frame, and there are few input events (a key, once
\* pressed, stays down)
Next ==
  \/ \E k \in Keys : KeyDown(k, MaxEvents)
  \/ Quit(MaxEvents)
  \/ \E dt \in Delays : Update(dt, MaxTime, MaxShort)

Spec == Init /\ [][Next]_vars

\* a short session: any frame timing, several input events
NextBurst ==
  \/ \E k \in Keys : KeyDown(k, BurstEvents)
  \/ \E k \in MoveKeys : KeyUp(k, BurstEvents)
  \/ Quit(BurstEvents)
  \/ \E dt \in Delays : Update(dt, BurstTime, 2 * BurstTicks)

SpecBurst == Init /\ [][NextBurst]_vars

\* a whole match that nobody touches until it is over: the first input event
\* comes at the "Play Again? Y/N" prompt, the others at any time after it
AtPrompt == game_over \/ nevents > 0

NextPrompt ==
  \/ \E k \in Keys : AtPrompt /\ KeyDown(k, PromptEvents)
  \/ \E k \in MoveKeys : AtPrompt /\ KeyUp(k, PromptEvents)
  \/ AtPrompt /\ Quit(PromptEvents)
  \/ \E dt \in Delays : Update(dt, MaxTime, MaxShort)

SpecPrompt == Init /\ [][NextPrompt]_vars

\* the start of a two-player match: update() is called every two frames, the
\* second player has UP down from the first frame on, and the mode key 2 and
\* the first player's S come at any time after that
DuelKeys == {"2", "up", "s"}

NextDuel ==
  \/ \E k \in DuelKeys : /\ IF k = "up" THEN now = 0 ELSE "up" \in keys
                         /\ KeyDown(k, DuelEvents)
  \/ Update(2 * FrameMs, DuelTime, 0)

SpecDuel == Init /\ [][NextDuel]_vars

\* ------------------------------------------------------------ claims
\* a step of the loop that called update(): only update() advances the clock
UpdateCalled == now' # now
\* a call of update() that got past both early returns
EffectiveUpdate == last' = "update" /\ now' # now

\* C1: between loop steps, game_over is true exactly when score1 >= 5 or
\* score2 >= 5, whatever keys were pressed and however time passed.
C1_ConcludedIffWon ==
  game_over <=> (score1 >= 5 \/ score2 >= 5)

\* the update that brought a score to 5 has just set game_over
C1_Witness ==
  /\ last = "update"
  /\ game_over
  /\ score1 = 5 \/ score2 = 5

\* C2: with game_over true, a call of update() changes nothing of the game
\* (paddles, ball, velocity, scores, ai_active, insert_coin, game_over,
\* last_update), whatever keys are held and however much time has passed.
C2_ConcludedUpdateIsNoOp ==
  [][(game_over /\ UpdateCalled) =>
       /\ paddle1' = paddle1 /\ paddle2' = paddle2
       /\ ball' = ball /\ ball_speed' = ball_speed
       /\ score1' = score1 /\ score2' = score2
       /\ ai_active' = ai_active /\ insert_coin' = insert_coin
       /\ game_over' = game_over /\ last_update' = last_update]_vars

\* update() was called on a finished match with a key held and more than
\* two update periods after the last effective update
C2_Witness ==
  /\ game_over
  /\ last = "concluded"
  /\ keys # {}
  /\ now - last_update > 2 * UPDATE_LAG

AdvX == ball.x + ball_speed[1]
AdvY == ball.y + ball_speed[2]
\* the advanced ball is at or past the left, the right boundary
PastLeft == AdvX <= 0
PastRight == AdvX + BALL_SIZE >= WIDTH
\* the advanced ball's top or bottom edge is at or past the field's
AtWall == AdvY <= 0 \/ AdvY + BALL_SIZE >= HEIGHT
\* the advanced ball overlaps the paddle at x = px that update() has moved to y = py
Overlaps(px, py) ==
  /\ AdvX < px + PADDLE_WIDTH /\ px < AdvX + BALL_SIZE
  /\ AdvY < py + PADDLE_HEIGHT /\ py < AdvY + BALL_SIZE
\* a velocity component has changed sign
SignFlipped(i) == (ball_speed'[i] > 0) # (ball_speed[i] > 0)

\* C4 as claimed: in every call of update() with the match not concluded and
\* the advanced ball not past a horizontal boundary, the ball's position
\* after the call is its position before plus its velocity before.
C4_EveryCallAdvancesBall ==
  [][(UpdateCalled /\ ~game_over /\ ~PastLeft /\ ~PastRight) =>
       (ball'.x = AdvX /\ ball'.y = AdvY)]_vars

\* C4 as amended: the same for the calls that come at least 32 ms after the
\* last effective update.
C4_EffectiveUpdateAdvancesBall ==
  [][(UpdateCalled /\ ~game_over /\ now' - last_update >= 32
        /\ ~PastLeft /\ ~PastRight) =>
       (ball'.x = AdvX /\ ball'.y = AdvY)]_vars

\* an effective update without a score has moved the ball, after a call that
\* the throttle had dropped
C4_Witness ==
  /\ last = "update"
  /\ nshort > 0
  /\ "score" \notin sounds
  /\ ~game_over

\* C5 as claimed: in every effective update the sign of the vertical velocity
\* changes exactly when the advanced ball's top edge is at or above 0 or its
\* bottom edge at or below HEIGHT.
C5_VerticalFlipIffWall ==
  [][EffectiveUpdate => (SignFlipped(2) <=> AtWall)]_vars

\* C5 as amended: the same for the effective updates in which no point is
\* scored (the advanced ball is past neither horizontal boundary).
C5_VerticalFlipIffWallUnlessScored ==
  [][(EffectiveUpdate /\ ~PastLeft /\ ~PastRight) =>
       (SignFlipped(2) <=> AtWall)]_vars

\* an update has bounced the ball off the top or bottom wall, without a score
C5_Witness ==
  /\ last = "update"
  /\ "boop" \in sounds
  /\ "score" \notin sounds

\* C6 as claimed: in every effective update the sign of the horizontal
\* velocity changes exactly when the advanced ball overlaps paddle1 or paddle2.
C6_HorizontalFlipIffPaddle ==
  [][EffectiveUpdate =>
       (SignFlipped(1) <=> (Overlaps(50, paddle1') \/ Overlaps(580, paddle2')))]_vars

\* C6 as amended: the same for the effective updates in which no point is
\* scored.
C6_HorizontalFlipIffPaddleUnlessScored ==
  [][(EffectiveUpdate /\ ~PastLeft /\ ~PastRight) =>
       (SignFlipped(1) <=> (Overlaps(50, paddle1') \/ Overlaps(580, paddle2')))]_vars

\* an update has bounced the ball off a paddle
C6_Witness ==
  /\ last = "update"
  /\ "beep" \in sounds
  /\ "score" \notin sounds

\* C7: the scoring step of an effective update: past the left boundary,
\* score2 goes up by 1, score1 stays, the ball's centre becomes (320, 240)
\* and the velocity (+4, +4); past the right boundary, score1 goes up by 1,
\* score2 stays, the centre becomes (320, 240) and the velocity (-4, +4);
\* otherwise both scores stay.
C7_ScoringStep ==
  [][EffectiveUpdate =>
       /\ PastLeft =>
            /\ score2' = score2 + 1 /\ score1' = score1
            /\ BallCenterX(ball') = 320 /\ BallCenterY(ball') = 240
            /\ ball_speed' = <<4, 4>>
       /\ PastRight =>
            /\ score1' = score1 + 1 /\ score2' = score2
            /\ BallCenterX(ball') = 320 /\ BallCenterY(ball') = 240
            /\ ball_speed' = <<-4, 4>>
       /\ (~PastLeft /\ ~PastRight) => (score1' = score1 /\ score2' = score2)]_vars

\* an update has just scored, in a match in which both sides have scored
C7_Witness ==
  /\ last = "update"
  /\ "score" \in sounds
  /\ score1 >= 1
  /\ score2 >= 1

\* C8 as claimed: after a score the ball moves toward the player who did
\* not score: to the right after score1 goes up, to the left after score2
\* goes up.
C8_ServeTowardLoser ==
  [][/\ (EffectiveUpdate /\ score1' > score1) => ball_speed'[1] > 0
     /\ (EffectiveUpdate /\ score2' > score2) => ball_speed'[1] < 0]_vars

\* C8 as amended: after a score the ball moves toward the player who scored:
\* to the left after score1 goes up, to the right after score2 goes up.
C8_ServeTowardScorer ==
  [][/\ (EffectiveUpdate /\ score1' > score1) => ball_speed'[1] < 0
     /\ (EffectiveUpdate /\ score2' > score2) => ball_speed'[1] > 0]_vars

\* the left player has just scored and the ball is served to the left
C8_Witness ==
  /\ last = "update"
  /\ "score" \in sounds
  /\ ball_speed[1] = -BALL_SPEED
  /\ score1 >= 1

\* C9 as claimed: reset() (R at any time, Y on a concluded match) leaves
\* both scores 0, both paddles centred vertically (y = 210), the ball's
\* centre at the field's centre (320, 240) and game_over false.
C9_ResetRestores ==
  [][(nevents' # nevents /\ (last' = "r" \/ (last' = "y" /\ game_over))) =>
       /\ score1' = 0 /\ score2' = 0
       /\ paddle1' = 210 /\ paddle2' = 210
       /\ BallCenterX(ball') = 320 /\ BallCenterY(ball') = 240
       /\ ~game_over']_vars

\* C10: with the AI on, an effective update moves paddle2 only when the
\* ball's centre (before the ball advances) is more than 30 from the paddle's,
\* and then by 3 toward the ball; within the deadband paddle2 stays, whatever
\* keys are held.
C10_AIDeadband ==
  [][(EffectiveUpdate /\ ai_active) =>
       LET d == (ball.y + 5) - (paddle2 + 30)
       IN /\ paddle2' # paddle2 =>
               \/ d > 30 /\ paddle2' = paddle2 + 3
               \/ d < -30 /\ paddle2' = paddle2 - 3
          /\ (d <= 30 /\ d >= -30) => paddle2' = paddle2]_vars

\* the AI has moved paddle2 down while UP is held
C10_Witness ==
  /\ last = "update"
  /\ ai_active
  /\ "up" \in keys
  /\ paddle2 > PaddleStartY

\* C11 as claimed: the session starts awaiting input (insert_coin true,
\* game_over false) and the match is never concluded while insert_coin is
\* still true.
C11_ConcludedOnlyAfterInput ==
  /\ last = "init" => (insert_coin /\ ~game_over)
  /\ ~(game_over /\ insert_coin)
\* a step of the loop that handled one input event
EventHandled == nevents' # nevents

\* C12: the loop ends exactly on QUIT, on an ESCAPE keydown, or on an N
\* keydown read while the match is concluded: such an event clears running,
\* no other event does (N on a running match, N after an R or Y reset of the
\* same batch), and the loop exits after the update() of that iteration.
C12_LoopExit ==
  [][/\ EventHandled =>
          running' = (running /\ ~(\/ last' = "quit"
                                   \/ last' = "escape"
                                   \/ last' = "n" /\ game_over))
     /\ UpdateCalled => (running' = running /\ (pc' = "done") = ~running)
     /\ pc' # pc => UpdateCalled]_vars

\* N was drained right after the reset that answered the prompt, and the loop
\* goes on
C12_Witness ==
  /\ last = "n"
  /\ nevents = 2
  /\ running
  /\ ~game_over
  /\ ball = [x |-> 320, y |-> 240]
  /\ score1 = 0 /\ score2 = 0
\* C13: a tick is reachable in which the advanced ball is at the top or bottom
\* wall and overlaps a paddle, and in every such tick both velocity
\* components are negated.
C13_WallAndPaddleBothFlip ==
  [][(EffectiveUpdate /\ AtWall /\ (Overlaps(50, paddle1') \/ Overlaps(580, paddle2'))) =>
       (ball_speed'[1] = -ball_speed[1] /\ ball_speed'[2] = -ball_speed[2])]_vars

\* an update has bounced the ball off a wall and off a paddle at once
C13_Witness ==
  /\ last = "update"
  /\ "boop" \in sounds
  /\ "beep" \in sounds

\* C14: a call of update() on a match that is not concluded, made less than
\* 32 ms after last_update, changes nothing of the game, last_update
\* included; any other such call sets last_update to the clock reading and
\* runs the whole step (the ball moves).  last_update changes in no other
\* way, so two effective updates are at least 32 ms apart.
C14_Throttle ==
  [][/\ (UpdateCalled /\ ~game_over) =>
          IF now' - last_update < 32
          THEN game' = game /\ last' = "throttled"
          ELSE /\ last_update' = now'
               /\ last' = "update"
               /\ ball' # ball
     /\ last_update' # last_update =>
          (EffectiveUpdate /\ last_update' - last_update >= 32)]_vars

\* update() was called one frame after an effective update and returned early
C14_Witness ==
  /\ last = "throttled"
  /\ ~game_over
  /\ now - last_update = 16
  /\ now > 32

\* C15: both scores stay within 0..5 and are never both 5; one update()
\* raises score1 + score2 by at most 1; a score goes down only in a reset
\* (an R keydown, or a Y keydown on a concluded match), which zeroes both.
C15_ScoresBounded ==
  [][/\ score1' \in 0..5 /\ score2' \in 0..5
     /\ ~(score1' = 5 /\ score2' = 5)
     /\ UpdateCalled =>
          /\ score1' >= score1 /\ score2' >= score2
          /\ score1' + score2' <= score1 + score2 + 1
     /\ (score1' < score1 \/ score2' < score2) =>
          /\ EventHandled
          /\ last' = "r" \/ (last' = "y" /\ game_over)
          /\ score1' = 0 /\ score2' = 0]_vars

\* the match has just been decided 5 - 4
C15_Witness ==
  /\ last = "update"
  /\ "score" \in sounds
  /\ score1 = 5
  /\ score2 = 4

\* C16: in every state the ball is strictly between the left and right
\* boundaries and overshoots the top or bottom wall by less than one step;
\* each velocity component is 4 or -4; a ball at a wall moves back strictly
\* inside the field with its next advance; and the effective update that
\* follows one with a wall flip leaves the vertical velocity as it is.
C16_BallInField ==
  /\ [](/\ 0 < ball.x
        /\ ball.x + 10 < 640
        /\ -4 < ball.y
        /\ ball.y + 10 < 480 + 4
        /\ ball_speed[1] \in {4, -4}
        /\ ball_speed[2] \in {4, -4}
        /\ (ball.y <= 0 \/ ball.y + 10 >= 480) =>
             /\ 0 < ball.y + ball_speed[2]
             /\ ball.y + ball_speed[2] + 10 < 480)
  /\ [][(last = "update" /\ "boop" \in sounds /\ EffectiveUpdate) =>
         ball_speed'[2] = ball_speed[2]]_vars

\* the ball has just overshot the top wall and been turned round
C16_Witness ==
  /\ last = "update"
  /\ "boop" \in sounds
  /\ ball.y = -1
  /\ ball_speed[2] = 4

\* C17 as claimed: when an effective update() has negated the horizontal
\* velocity at a paddle, the next effective update() does not find the ball
\* overlapping a paddle (the two paddles are 520 pixels apart, so an overlap
\* one step later is with the same paddle).
C17_PaddleBounceReleases ==
  [][(last = "update" /\ "beep" \in sounds /\ EffectiveUpdate) =>
       ~(Overlaps(50, paddle1') \/ Overlaps(580, paddle2'))]_vars

\* C18: ai_active is true after construction; a 1 keydown makes it true, a
\* 2 keydown makes it false, and no other step changes it: not update(), not
\* the reset of an R keydown or of a Y keydown on a concluded match, not any
\* other event.
C18_ModeKeysOnly ==
  /\ last = "init" => ai_active
  /\ [][ai_active' = IF EventHandled /\ last' = "1" THEN TRUE
                     ELSE IF EventHandled /\ last' = "2" THEN FALSE
                     ELSE ai_active]_vars

\* the two-player mode chosen at the prompt has survived the Y that restarted
\* the match
C18_Witness ==
  /\ last = "y"
  /\ nevents = 2
  /\ ~ai_active
  /\ ~game_over
  /\ score1 = 0 /\ score2 = 0
  /\ ball = [x |-> 320, y |-> 240]

====
